---- MODULE Spec2Model ----
(***************************************************************************)
(* Model of image_matcher.cpp: the four find_topN_matches_* ranking        *)
(* routines, find_target_index, and the control flow of main.              *)
(*                                                                         *)
(* Indices are the C indices (0-based); At(s, i) reads s[i].  A char*      *)
(* stored in `output` is the pointer filenames[i]; it is modelled by the   *)
(* index i of the entry it points to, and NameOf gives the string it       *)
(* points at.  Scores are exact small integers (floats that hold them      *)
(* exactly); NaN scores are outside the model.                             *)
(***************************************************************************)
EXTENDS Integers, Sequences, FiniteSets, TLC

\* ------------------------------------------------------------------ bounds
MaxEntries == 3     \* rows of the feature file
MaxCalls == 2       \* direct calls a caller makes on one output vector

\* ------------------------------------------------------------------ inputs
Names == {"a.jpg", "b.jpg", "c.jpg"}
Vecs == {<<0, 1>>, <<1, 1>>}
ArgStrings == {<<>>, <<"x">>, <<"0">>, <<"-", "1">>, <<"1">>, <<"2">>, <<"3">>,
               <<"1", "x">>, <<"1", "0">>}
CallNs == {-1, 0, 1, 2}
MetricArgs == {"ssd", "rgb-hist", "multi-hist", "texture-color",
               "depth-dnn", "depth", "cosine"}

VARIABLES
    pc,               \* position in main, or "lib" when routines are called directly
    target_image,     \* main: char target_image[256]
    N,                \* main: int N
    distance_metric,  \* main: std::string distance_metric
    warned,           \* main printed "Invalid distance metric"
    loaded,           \* read_image_data_csv: "no" (not called), "ok" or "failed"
    filenames,        \* std::vector<char *> filenames
    data,             \* std::vector<std::vector<float>> data
    output,           \* std::vector<char *> output
    result,           \* main: int result
    exit_status,      \* status the process ended with (when pc = "exited")
    caller,           \* pc = "lib": the routine and arguments the caller uses
    calls             \* the calls of ranking routines made so far, oldest first

vars == <<pc, target_image, N, distance_metric, warned, loaded, filenames,
          data, output, result, exit_status, caller, calls>>

\* ----------------------------------------------------------------- helpers
At(s, i) == s[i + 1]

Min(a, b) == IF a < b THEN a ELSE b

Max(a, b) == IF a < b THEN b ELSE a

Range(s) == {s[i] : i \in 1..Len(s)}

Reverse(s) == [i \in 1..Len(s) |-> s[Len(s) + 1 - i]]

RECURSIVE SumTo(_, _)
SumTo(f, n) == IF n = 0 THEN 0 ELSE f[n] + SumTo(f, n - 1)

SeqsUpTo(S, n) == UNION {[1..k -> S] : k \in 0..n}

\* ----------------------------------------------------- C library behaviour
IsDigit(c) == c \in {"0", "1", "2", "3", "4", "5", "6", "7", "8", "9"}

DigitVal(c) ==
    CASE c = "0" -> 0 [] c = "1" -> 1 [] c = "2" -> 2 [] c = "3" -> 3
      [] c = "4" -> 4 [] c = "5" -> 5 [] c = "6" -> 6 [] c = "7" -> 7
      [] c = "8" -> 8 [] c = "9" -> 9

\* value of the leading run of digits of s, continuing from acc
RECURSIVE AtoiDigits(_, _)
AtoiDigits(s, acc) ==
    IF s = <<>> \/ ~IsDigit(Head(s)) THEN acc
    ELSE AtoiDigits(Tail(s), 10 * acc + DigitVal(Head(s)))

\* atoi: optional sign, then digits up to the first non-digit; 0 when none
atoi(s) ==
    IF s # <<>> /\ Head(s) = "-" THEN 0 - AtoiDigits(Tail(s), 0)
    ELSE AtoiDigits(s, 0)

\* exit(code): the status the parent sees is the low 8 bits
ExitStatus(code) == code % 256

\* --------------------------------------------------------- distance metrics
calculate_ssd(a, b) ==
    SumTo([i \in 1..Len(a) |-> (a[i] - b[i]) * (a[i] - b[i])], Len(a))

calculate_histogramIntersection(a, b) ==
    SumTo([i \in 1..Len(a) |-> Min(a[i], b[i])], Len(a))

\* residual of the intersection: what the two histograms do not share
calculate_multiHist_distance(a, b) ==
    SumTo([i \in 1..Len(a) |-> Max(a[i], b[i]) - Min(a[i], b[i])], Len(a))

\* colour part (first element, absolute difference) plus texture part
\* (the rest, squared difference)
calculate_textureColor_distance(a, b) ==
    SumTo([i \in 1..Len(a) |->
             IF i = 1 THEN Max(a[i], b[i]) - Min(a[i], b[i])
             ELSE (a[i] - b[i]) * (a[i] - b[i])], Len(a))

Routines == {"ssd", "rgb_hist", "multiHist", "textureColor"}

\* the distance function each routine calls in its scoring loop
Score(fn, a, b) ==
    CASE fn = "ssd" -> calculate_ssd(a, b)
      [] fn = "rgb_hist" -> calculate_histogramIntersection(a, b)
      [] fn = "multiHist" -> calculate_multiHist_distance(a, b)
      [] fn = "textureColor" -> calculate_textureColor_distance(a, b)

\* ---------------------------------------------------------- ranking routines
\* not-found result that keeps the index the loop stopped at
find_target_index_last(target_image_filename, fnames) ==
    IF \E i \in 0..(Len(fnames) - 1) : At(fnames, i) = target_image_filename
    THEN CHOOSE i \in 0..(Len(fnames) - 1) :
            /\ At(fnames, i) = target_image_filename
            /\ \A j \in 0..(i - 1) : At(fnames, j) # target_image_filename
    ELSE Len(fnames) - 1

\* index of the first entry whose name strcmp-equals the target, else -1
find_target_index(target_image_filename, fnames) ==
    IF \E i \in 0..(Len(fnames) - 1) : At(fnames, i) = target_image_filename
    THEN CHOOSE i \in 0..(Len(fnames) - 1) :
            /\ At(fnames, i) = target_image_filename
            /\ \A j \in 0..(i - 1) : At(fnames, j) # target_image_filename
    ELSE -1

\* scoring loop that starts at the second row
ScoreOthers_from1(fn, rows, target_index) ==
    LET others == SelectSeq([k \in 1..Len(rows) |-> k - 1],
                            LAMBDA i : i # target_index /\ i >= 1)
    IN  [k \in 1..Len(others) |->
            <<Score(fn, At(rows, others[k]), At(rows, target_index)), others[k]>>]

\* Step 2: the pairs {dist, i} pushed for every row i except i == target_index
ScoreOthers(fn, rows, target_index) ==
    LET others == SelectSeq([k \in 1..Len(rows) |-> k - 1],
                            LAMBDA i : i # target_index)
    IN  [k \in 1..Len(others) |->
            <<Score(fn, At(rows, others[k]), At(rows, target_index)), others[k]>>]

\* comparison that looks at the index only
PairLess_index(p, q) == p[2] < q[2]

\* operator< of std::pair<float, int>: lexicographic
PairLess(p, q) == p[1] < q[1] \/ (p[1] = q[1] /\ p[2] < q[2])

\* sort(begin, end): the pairs in ascending operator< order
RECURSIVE SortPairs(_)
SortPairs(s) ==
    IF s = <<>> THEN <<>>
    ELSE LET m == CHOOSE p \in Range(s) : \A q \in Range(s) : ~PairLess(q, p)
         IN  <<m>> \o SortPairs(SelectSeq(s, LAMBDA p : p # m))

\* sort(rbegin, rend): ascending along the reversed range
SortPairsReversed(s) == Reverse(SortPairs(s))

\* loop bound i <= N
TopN_inclusive(distances, n) ==
    [k \in 1..Max(0, Min(n + 1, Len(distances))) |-> distances[k][2]]

\* Step 4: for (i = 0; i < N && i < distances.size(); i++) push filenames[second]
TopN(distances, n) ==
    [k \in 1..Max(0, Min(n, Len(distances))) |-> distances[k][2]]

NotFound(out) == [ret |-> -1, output |-> out, scored |-> 0, sorted |-> FALSE]

Found(out, distances, sortedPairs, n) ==
    [ret |-> 0, output |-> out \o TopN(sortedPairs, n),
     scored |-> Len(distances), sorted |-> TRUE]

find_topN_matches_ssd(target_image_filename, fnames, rows, n, out) ==
    LET target_index == find_target_index(target_image_filename, fnames)
    IN  IF target_index = -1 THEN NotFound(out)
        ELSE LET distances == ScoreOthers("ssd", rows, target_index)
             IN  Found(out, distances, SortPairs(distances), n)

find_topN_matches_rgb_hist(target_image_filename, fnames, rows, n, out) ==
    LET target_index == find_target_index(target_image_filename, fnames)
    IN  IF target_index = -1 THEN NotFound(out)
        ELSE LET distances ==
                     ScoreOthers("rgb_hist", rows, target_index)
             IN  Found(out, distances, SortPairsReversed(distances), n)

find_topN_matches_multiHist(target_image_filename, fnames, rows, n, out) ==
    LET target_index == find_target_index(target_image_filename, fnames)
    IN  IF target_index = -1 THEN NotFound(out)
        ELSE LET distances ==
                     ScoreOthers("multiHist", rows, target_index)
             IN  Found(out, distances, SortPairs(distances), n)

find_topN_matches_textureColor(target_image_filename, fnames, rows, n, out) ==
    LET target_index == find_target_index(target_image_filename, fnames)
    IN  IF target_index = -1 THEN NotFound(out)
        ELSE LET distances ==
                     ScoreOthers("textureColor", rows, target_index)
             IN  Found(out, distances, SortPairs(distances), n)

RunRoutine(fn, t, n, out) ==
    CASE fn = "ssd" -> find_topN_matches_ssd(t, filenames, data, n, out)
      [] fn = "rgb_hist" -> find_topN_matches_rgb_hist(t, filenames, data, n, out)
      [] fn = "multiHist" -> find_topN_matches_multiHist(t, filenames, data, n, out)
      [] fn = "textureColor" ->
             find_topN_matches_textureColor(t, filenames, data, n, out)

\* one call of routine fn on the vector `out`; the call is logged in `calls`
Invoke(fn, t, n, out) ==
    LET r == RunRoutine(fn, t, n, out)
    IN  /\ output' = r.output
        /\ result' = r.ret
        /\ calls' = Append(calls, [fn |-> fn, target |-> t, N |-> n,
                                   out_in |-> out, out |-> r.output,
                                   ret |-> r.ret, scored |-> r.scored,
                                   sorted |-> r.sorted])

\* ------------------------------------------------------------------- main
Datasets ==
    {d \in [names : SeqsUpTo(Names, MaxEntries), rows : SeqsUpTo(Vecs, MaxEntries)] :
        Len(d.names) = Len(d.rows)}

Exit(code) ==
    /\ pc' = "exited"
    /\ exit_status' = ExitStatus(code)

Init ==
    /\ pc = "start"
    /\ target_image = ""
    /\ N = 0
    /\ distance_metric = ""
    /\ warned = FALSE
    /\ loaded = "no"
    /\ filenames = <<>>
    /\ data = <<>>
    /\ output = <<>>
    /\ result = 0
    /\ exit_status = 0
    /\ caller = [fn |-> "main", target |-> "", N |-> 0]
    /\ calls = <<>>

\* Steps 1-3: argc check, copy argv[1] and argv[2]
CheckArgs ==
    /\ pc = "start"
    /\ \E argc \in {4, 5}, arg1 \in Names :
          IF argc < 5
          THEN /\ Exit(-1)
               /\ UNCHANGED target_image
          ELSE /\ target_image' = arg1
               /\ pc' = "read_n"
               /\ UNCHANGED exit_status
    /\ UNCHANGED <<N, distance_metric, warned, loaded, filenames, data, output,
                   result, caller, calls>>

\* Step 4: N = atoi(argv[3]); N <= 0 exits
ReadN ==
    /\ pc = "read_n"
    /\ \E arg3 \in ArgStrings :
          /\ N' = atoi(arg3)
          /\ IF atoi(arg3) <= 0 THEN Exit(-1)
             ELSE pc' = "metric" /\ UNCHANGED exit_status
    /\ UNCHANGED <<target_image, distance_metric, warned, loaded, filenames, data,
                   output, result, caller, calls>>

\* Step 5: the metric name is compared with the five accepted names; a name
\* outside them is reported and execution continues
GetMetric ==
    /\ pc = "metric"
    /\ \E arg4 \in MetricArgs :
          /\ distance_metric' = arg4
          /\ warned' = (arg4 \notin {"ssd", "rgb-hist", "multi-hist",
                                     "texture-color", "depth-dnn"})
    /\ pc' = "load"
    /\ UNCHANGED <<target_image, N, loaded, filenames, data, output, result,
                   exit_status, caller, calls>>

\* read_image_data_csv fills filenames and data; non-zero return exits
ReadCsv ==
    /\ pc = "load"
    /\ \/ \E d \in Datasets :
             /\ filenames' = d.names
             /\ data' = d.rows
             /\ loaded' = "ok"
             /\ result' = 0
             /\ pc' = "dispatch"
             /\ UNCHANGED exit_status
       \/ /\ loaded' = "failed"
          /\ result' = -1
          /\ Exit(-1)
          /\ UNCHANGED <<filenames, data>>
    /\ UNCHANGED <<target_image, N, distance_metric, warned, output, caller, calls>>

\* Step 6: output is empty, result = -1, then the if / else-if chain
Dispatch ==
    /\ pc = "dispatch"
    /\ pc' = "verify"
    /\ CASE distance_metric = "ssd" -> Invoke("ssd", target_image, N, <<>>)
         [] distance_metric = "rgb-hist" -> Invoke("rgb_hist", target_image, N, <<>>)
         [] distance_metric = "multi-hist" ->
                Invoke("multiHist", target_image, N, <<>>)
         [] distance_metric = "texture-color" ->
                Invoke("textureColor", target_image, N, <<>>)
         [] distance_metric = "depth" ->
                Invoke("textureColor", target_image, N, <<>>)
         [] OTHER -> /\ output' = <<>>
                     /\ result' = -1
                     /\ UNCHANGED calls
    /\ UNCHANGED <<target_image, N, distance_metric, warned, loaded, filenames,
                   data, exit_status, caller>>

\* Step 7: result != 0 exits; otherwise the output filenames are printed
Verify ==
    /\ pc = "verify"
    /\ IF result # 0 THEN Exit(-1)
       ELSE pc' = "display" /\ UNCHANGED exit_status
    /\ UNCHANGED <<target_image, N, distance_metric, warned, loaded, filenames,
                   data, output, result, caller, calls>>

\* imread of the target: an empty image exits, otherwise the gallery is shown
Display ==
    /\ pc = "display"
    /\ \E target_empty \in BOOLEAN :
          IF target_empty THEN Exit(-1) ELSE Exit(0)
    /\ UNCHANGED <<target_image, N, distance_metric, warned, loaded, filenames,
                   data, output, result, caller, calls>>

Next == CheckArgs \/ ReadN \/ GetMetric \/ ReadCsv \/ Dispatch \/ Verify \/ Display

Spec == Init /\ [][Next]_vars

\* ------------------------------------------- routines called without main
\* a caller holds a loaded dataset and an output vector (empty, or already
\* holding the pointer filenames[0]) and has chosen a routine, a query and N
InitCall ==
    /\ pc = "lib"
    /\ target_image = ""
    /\ N = 0
    /\ distance_metric = ""
    /\ warned = FALSE
    /\ loaded = "ok"
    /\ \E d \in Datasets :
          /\ filenames = d.names
          /\ data = d.rows
          /\ output \in {<<>>} \cup {<<0>> : k \in 1..Min(1, Len(d.names))}
    /\ result = 0
    /\ exit_status = 0
    /\ caller \in [fn : Routines, target : Names, N : CallNs]
    /\ calls = <<>>

\* the caller calls routine fn with its arguments and its output vector
Call(fn) ==
    /\ Len(calls) < MaxCalls
    /\ Invoke(fn, caller.target, caller.N, output)
    /\ UNCHANGED <<pc, target_image, N, distance_metric, warned, loaded,
                   filenames, data, exit_status, caller>>

CallSsd ==
    /\ pc = "lib" /\ caller.fn = "ssd"
    /\ Call("ssd")

CallRgbHist ==
    /\ pc = "lib" /\ caller.fn = "rgb_hist"
    /\ Call("rgb_hist")

CallMultiHist ==
    /\ pc = "lib" /\ caller.fn = "multiHist"
    /\ Call("multiHist")

CallTextureColor ==
    /\ pc = "lib" /\ caller.fn = "textureColor"
    /\ Call("textureColor")

NextCall == CallSsd \/ CallRgbHist \/ CallMultiHist \/ CallTextureColor

SpecCall == InitCall /\ [][NextCall]_vars

\* ------------------------------------------------------ terms of the claims
InRange(x, s) == \E k \in 1..Len(s) : s[k] = x

\* the string an element of output points at
NameOf(p) == At(filenames, p)

LastCall == calls[Len(calls)]

\* main has made a ranking call and it returned success
Ranked == pc \in {"verify", "display", "exited"} /\ calls # <<>> /\ result = 0

\* the entry the query identifier designates: the first one carrying it
QueryIndex ==
    CHOOSE i \in 0..(Len(filenames) - 1) :
        /\ At(filenames, i) = target_image
        /\ \A j \in 0..(i - 1) : At(filenames, j) # target_image

Others == (0..(Len(filenames) - 1)) \ {QueryIndex}

\* score of entry p against the query under the routine that was called
ScoreOf(p) == Score(LastCall.fn, At(data, p), At(data, QueryIndex))

\* x is strictly better than y in the direction of the routine that was called
Better(x, y) == IF LastCall.fn = "rgb_hist" THEN x > y ELSE x < y

AdjacentBestFirst ==
    \A k \in 1..(Len(output) - 1) :
        ~Better(ScoreOf(output[k + 1]), ScoreOf(output[k]))

SupportedMetrics == {"ssd", "rgb-hist", "multi-hist", "texture-color"}

\* the failure the request calls for, by the order the checks are due in
FailureKind ==
    IF target_image = "" \/ pc = "read_n" \/ loaded = "failed" THEN "none"
    ELSE IF N <= 0 THEN "InvalidN"
    ELSE IF distance_metric = "" THEN "none"
    ELSE IF distance_metric \notin SupportedMetrics THEN "UnknownMetric"
    ELSE IF calls # <<>> /\ ~InRange(target_image, filenames) THEN "QueryNotFound"
    ELSE "none"

\* ------------------------------------------------------------------ claims
\* C1: a successful ranking call returns no identifier equal to the query's,
\* also when several entries of the dataset carry the query's identifier.
C1_QueryIdExcluded ==
    Ranked => \A k \in 1..Len(output) : NameOf(output[k]) # target_image

\* C2: the result of a successful ranking call is ordered best-first in the
\* direction of the metric (ascending score for ssd, multi-hist and
\* texture-color, descending for rgb-hist), and no entry left out of the
\* result has a strictly better score than an entry in it.
C2_BestFirst ==
    Ranked =>
        /\ AdjacentBestFirst
        /\ \A i \in Others : ~InRange(i, output) =>
              \A k \in 1..Len(output) : ~Better(ScoreOf(i), ScoreOf(output[k]))

\* a descending ranking in which the sort moved a later entry in front
C2_Witness ==
    /\ Ranked
    /\ LastCall.fn = "rgb_hist"
    /\ Len(output) = 2
    /\ output[1] > output[2]
    /\ ScoreOf(output[1]) > ScoreOf(output[2])

\* C3: for every metric, of two non-query entries with exactly equal scores
\* the one earlier in the dataset comes earlier in the ranking, and is the
\* one kept when N cuts between them.
C3_StableTies ==
    (Ranked /\ Cardinality({filenames[k] : k \in 1..Len(filenames)}) = Len(filenames)) =>
        /\ \A j, k \in 1..Len(output) :
              (j < k /\ ScoreOf(output[j]) = ScoreOf(output[k]))
                  => output[j] < output[k]
        /\ \A i \in Others : ~InRange(i, output) =>
              \A k \in 1..Len(output) :
                  ScoreOf(i) = ScoreOf(output[k]) => output[k] < i

\* C4: a metric name outside the supported set ends in failure decided before
\* the dataset is loaded or any routine is invoked, never in a result; and
\* the names the validation accepts are exactly the names that are dispatched.
C4_UnknownMetricRejected ==
    /\ (distance_metric # "" /\ distance_metric \notin SupportedMetrics) =>
          /\ loaded = "no"
          /\ calls = <<>>
          /\ pc = "exited" => exit_status # 0
    /\ pc \in {"verify", "display"} => (~warned <=> calls # <<>>)

\* C5: with the query identifier absent from the dataset a routine returns
\* failure without scoring or sorting anything, and the output sequence is
\* exactly what it was on entry.
C5_QueryNotFound ==
    \A k \in 1..Len(calls) :
        ~InRange(calls[k].target, filenames) =>
            /\ calls[k].ret = -1
            /\ calls[k].scored = 0
            /\ ~calls[k].sorted
            /\ calls[k].out = calls[k].out_in

\* a call for an absent query on a non-empty output and a dataset to score
C5_Witness ==
    /\ pc = "lib"
    /\ calls # <<>>
    /\ ~InRange(LastCall.target, filenames)
    /\ LastCall.out_in # <<>>
    /\ Len(filenames) >= 2

\* C6: a call of a ranking routine with N <= 0 is rejected before any work:
\* it does not return success, scores nothing and yields no result.
C6_InvalidNRejected ==
    \A k \in 1..Len(calls) :
        calls[k].N <= 0 =>
            /\ calls[k].ret # 0
            /\ calls[k].scored = 0
            /\ calls[k].out = calls[k].out_in

\* C7: a successful ranking call returns exactly min(N, number of entries
\* other than the query) identifiers; N beyond that number returns them all,
\* and a dataset holding the query alone gives an empty, successful result.
C7_Truncation ==
    Ranked => Len(output) = Min(N, Len(filenames) - 1)

\* N exceeds the entries there are, and all of them are returned
C7_Witness ==
    /\ Ranked
    /\ Len(filenames) >= 2
    /\ N > Len(filenames) - 1
    /\ Len(output) = Len(filenames) - 1

\* C8: with N >= size(D) - 1 the result of a successful ranking call holds
\* every entry other than the query exactly once and nothing else, ordered
\* per the metric.
C8_Permutation ==
    (Ranked /\ N >= Len(filenames) - 1) =>
        /\ \A i \in Others : Cardinality({k \in 1..Len(output) : output[k] = i}) = 1
        /\ \A k \in 1..Len(output) : output[k] \in Others
        /\ AdjacentBestFirst

\* every other entry is returned, and the query is not the first row
C8_Witness ==
    /\ Ranked
    /\ N >= Len(filenames) - 1
    /\ Len(filenames) = MaxEntries
    /\ QueryIndex > 0
    /\ Len(output) = MaxEntries - 1

\* C9: InvalidN, QueryNotFound and UnknownMetric end the program with
\* statuses that tell them apart: none ends with success, and neither of
\* the other two ends with the status InvalidN ends with.
C9_FailureKindsDistinct ==
    pc = "exited" =>
        CASE FailureKind = "InvalidN" -> exit_status # 0
          [] FailureKind \in {"QueryNotFound", "UnknownMetric"} ->
                 exit_status \notin {0, ExitStatus(-1)}
          [] OTHER -> TRUE

\* C10: two calls of the same routine with the same dataset, query, N and
\* output sequence give the same result.
C10_Idempotent ==
    \A j, k \in 1..Len(calls) :
        (/\ calls[j].fn = calls[k].fn
         /\ calls[j].target = calls[k].target
         /\ calls[j].N = calls[k].N)
            => (calls[j].ret = calls[k].ret /\ calls[j].out = calls[k].out)

====
